---- MODULE Spec2Model ----
(***************************************************************************)
(* merge_image_metadata: near-duplicate images of a folder are found by    *)
(* perceptual hash and the Keywords, Subject and HierarchicalSubject       *)
(* fields of every similar pair are merged through exiftool.               *)
(*                                                                         *)
(* Text is modelled as a sequence of tokens: a token is a word or one of   *)
(* the three separators the program splits and joins on (", ", ": " and    *)
(* "\r\n").  A tag value is such a token sequence; the empty string is the *)
(* empty sequence.  The metadata stored in a file is, per field, the set   *)
(* of the tag values exiftool holds for it (an absent tag is the empty     *)
(* set).                                                                   *)
(***************************************************************************)
EXTENDS Integers, Sequences, FiniteSets, TLC

VARIABLES
    sys_argv,             \* sys.argv, program name first
    pc,                   \* position of the run
    level,                \* logger level, "INFO" or "DEBUG"
    usage_printed,        \* main printed __doc__
    exit_status,          \* -1 while running, else the process exit status
    folder,               \* folder_path given to compare_all_images ("?" before the call)
    listing,              \* what os.listdir returns for an existing folder
    fingerprint,          \* file -> the hash create_image_hash computes for it
    empty_add,            \* whether this exiftool stores the value of "-TAG+=" (empty value)
    exif0,                \* file -> metadata stored in it before the run
    exif,                 \* file -> metadata stored in it now
    image_dict,           \* insertion-ordered dict, a sequence of <<path, hash>>
    i, j,                 \* positions of the outer and the inner loop in image_dict
    keywords, subject, hierarchicalsubject,   \* merge_metadata's three lists
    merged,               \* the tuple merge_metadata returned for the current pair
    events                \* what the run has done so far, in order

vars == <<sys_argv, pc, level, usage_printed, exit_status, folder, listing,
          fingerprint, empty_add, exif0, exif, image_dict, i, j, keywords,
          subject, hierarchicalsubject, merged, events>>

----------------------------------------------------------------------------
(* Bounds of the model *)

\* longest command line tried: arguments after the program name
MaxArgs == 3

----------------------------------------------------------------------------
(* Text *)

CommaSp == ", "
ColonSp == ": "
CRLF == "\r\n"

\* position of the first token of s equal to sep, 0 when there is none
RECURSIVE FindFrom(_, _, _)
FindFrom(s, sep, k) ==
    IF k > Len(s) THEN 0
    ELSE IF s[k] = sep THEN k
    ELSE FindFrom(s, sep, k + 1)

\* str.split(sep): the pieces between the occurrences of sep, at least one piece
RECURSIVE Split(_, _)
Split(s, sep) ==
    LET k == FindFrom(s, sep, 1)
    IN  IF k = 0 THEN <<s>>
        ELSE <<SubSeq(s, 1, k - 1)>> \o Split(SubSeq(s, k + 1, Len(s)), sep)

\* str.split(sep, 1)[0]: the text before the first sep
SplitOnceFirst(s, sep) ==
    LET k == FindFrom(s, sep, 1)
    IN  IF k = 0 THEN s ELSE SubSeq(s, 1, k - 1)

\* sep.join(list)
RECURSIVE Join(_, _)
Join(list, sep) ==
    IF Len(list) = 0 THEN <<>>
    ELSE IF Len(list) = 1 THEN list[1]
    ELSE list[1] \o <<sep>> \o Join(Tail(list), sep)

Range(s) == {s[k] : k \in 1..Len(s)}

----------------------------------------------------------------------------
(* Files, fingerprints and stored metadata *)

Fields == <<"Keywords", "Subject", "HierarchicalSubject">>
FieldSet == Range(Fields)

\* the description exiftool prints in front of a tag's value
Label(f) ==
    CASE f = "Keywords" -> "Keywords                        "
      [] f = "Subject" -> "Subject                         "
      [] f = "HierarchicalSubject" -> "Hierarchical Subject            "

IMAGE_EXTENSIONS == {".jpg", ".jpeg", ".png"}

\* the files in the folder, in lexicographic order of their names
Files == <<"a.jpg", "b.png", "c.jpeg", "d.gif">>

\* f.lower() ends with this
LowerExt(f) ==
    CASE f = "a.jpg" -> ".jpg"
      [] f = "b.png" -> ".png"
      [] f = "c.jpeg" -> ".jpeg"
      [] f = "d.gif" -> ".gif"

IsImageFile(f) == LowerExt(f) \in IMAGE_EXTENSIONS

Images == {f \in Range(Files) : IsImageFile(f)}

Rank(f) == CHOOSE k \in 1..Len(Files) : Files[k] = f

\* image1 < image2 on the paths os.path.join(folder_path, file)
PathLess(p, q) == Rank(p) < Rank(q)

\* fingerprints the images may have: 8x8 average hashes cut to three bits
Hashes == {<<0, 0, 0>>, <<0, 0, 1>>, <<0, 1, 1>>, <<1, 0, 1>>}

\* ImageHash.__sub__: the number of differing bits
HashDistance(h1, h2) == Cardinality({k \in 1..Len(h1) : h1[k] # h2[k]})

NoMetadata == [f \in FieldSet |-> {}]

\* the tags of each image when it holds the field
FullMetadata(img) ==
    CASE img = "a.jpg" ->
            [Keywords |-> {<<"cat">>, <<"pet">>},
             Subject |-> {<<"cat">>, <<"pet">>},
             HierarchicalSubject |-> {<<"animal|cat">>}]
      [] img = "b.png" ->
            [Keywords |-> {<<"pet">>, <<"animal">>},
             Subject |-> {<<"pet">>, <<"animal">>},
             HierarchicalSubject |-> {<<"animal|pet">>}]
      [] img = "c.jpeg" ->
            [Keywords |-> {<<"dog">>},
             Subject |-> {<<"dog">>},
             HierarchicalSubject |-> {<<"animal|dog">>}]
      [] OTHER -> NoMetadata

\* which fields an image may hold before the run: none, all, all but Subject,
\* Keywords alone
Presence(img) ==
    {{}, {"Keywords", "Subject", "HierarchicalSubject"}}
    \cup (IF img = "c.jpeg" THEN {}
          ELSE {{"Keywords", "HierarchicalSubject"}, {"Keywords"}})

\* the fingerprints an image may have
HashesOf(img) == IF img = "a.jpg" THEN {<<0, 0, 0>>, <<0, 0, 1>>} ELSE Hashes

Restrict(meta, present) ==
    [f \in FieldSet |-> IF f \in present THEN meta[f] ELSE {}]

----------------------------------------------------------------------------
(* exiftool *)

\* a fixed order in which exiftool lists the values of a tag
ValueOrder ==
    << <<>>, <<"animal">>, <<"animal|cat">>, <<"animal|dog">>, <<"animal|pet">>,
       <<"cat">>, <<"dog">>, <<"pet">> >>

RECURSIVE Listed(_, _)
Listed(values, k) ==
    IF k > Len(ValueOrder) THEN <<>>
    ELSE (IF ValueOrder[k] \in values THEN <<ValueOrder[k]>> ELSE <<>>)
         \o Listed(values, k + 1)

\* exiftool -Keywords -Subject -HierarchicalSubject FILE: one line per tag the
\* file holds, in the order asked, "Label: v1, v2" and a line break
RECURSIVE ExiftoolOutput(_, _)
ExiftoolOutput(meta, k) ==
    IF k > Len(Fields) THEN <<>>
    ELSE (IF meta[Fields[k]] = {} THEN <<>>
          ELSE <<Label(Fields[k]), ColonSp>>
               \o Join(Listed(meta[Fields[k]], 1), CommaSp) \o <<CRLF>>)
         \o ExiftoolOutput(meta, k + 1)

\* exiftool -TAG+=value ...: every value is added to its tag and nothing is
\* removed; an empty value is stored only by a tool with empty_add
ExiftoolAdd(meta, directives, storesEmpty) ==
    [f \in FieldSet |->
        meta[f] \cup {d[2] : d \in {e \in directives :
                                      /\ e[1] = f
                                      /\ (e[2] # <<>> \/ storesEmpty)}}]

----------------------------------------------------------------------------
(* merge_metadata and apply_metadata *)

NoLists == [keywords |-> <<>>, subject |-> <<>>, hierarchicalsubject |-> <<>>]

\* the try block of merge_metadata on one file's output: each statement
\* appends the text after the first ": " of its line; the first IndexError
\* ends the block and keeps what was appended before it
ParseOutput(output, lists) ==
    LET first == Split(SplitOnceFirst(output, CRLF), ColonSp)
        lines == Split(output, CRLF)
    IN  IF Len(first) < 2 THEN lists
        ELSE LET l1 == [lists EXCEPT !.keywords = Append(@, first[2])]
             IN  IF Len(lines) < 2 \/ Len(Split(lines[2], ColonSp)) < 2 THEN l1
                 ELSE LET l2 == [l1 EXCEPT !.subject =
                                     Append(@, Split(lines[2], ColonSp)[2])]
                      IN  IF Len(lines) < 3 \/ Len(Split(lines[3], ColonSp)) < 2
                          THEN l2
                          ELSE [l2 EXCEPT !.hierarchicalsubject =
                                     Append(@, Split(lines[3], ColonSp)[2])]

\* whether the try block ends in its except clause
ReadOutcome(output) ==
    IF ParseOutput(output, NoLists).hierarchicalsubject = <<>> THEN "IndexError" ELSE "ok"

\* a merge that splits the last text read instead of the joined texts
MergedListLast(values) ==
    IF values = <<>> THEN {<<>>} ELSE Range(Split(values[Len(values)], CommaSp))

\* list(set(", ".join(values).split(", "))), as the set of its elements
MergedList(values) == Range(Split(Join(values, CommaSp), CommaSp))

\* the tuple merge_metadata returns from the lists read from both files
MergedTuple(lists) ==
    [Keywords |-> MergedList(lists.keywords),
     Subject |-> MergedList(lists.subject),
     HierarchicalSubject |-> MergedList(lists.hierarchicalsubject)]

\* merge_metadata(image1_path, image2_path) on the stored metadata m
MergeMetadata(m, image1_path, image2_path) ==
    MergedTuple(ParseOutput(ExiftoolOutput(m[image2_path], 1),
                            ParseOutput(ExiftoolOutput(m[image1_path], 1), NoLists)))

\* the -TAG+=value parameters apply_metadata builds, as <<tag, value>>
Parameters(tuple) == UNION {{<<f, v>> : v \in tuple[f]} : f \in FieldSet}

\* apply_metadata(image_path, keywords, subjects, hierarchicalsubjects) on m
ApplyMetadata(m, image_path, tuple, storesEmpty) ==
    [m EXCEPT ![image_path] = ExiftoolAdd(@, Parameters(tuple), storesEmpty)]

\* steps 3 and 4 of compare_all_images for one pair
MergePair(m, image1, image2, storesEmpty) ==
    LET tuple == MergeMetadata(m, image1, image2)
    IN  ApplyMetadata(ApplyMetadata(m, image1, tuple, storesEmpty),
                      image2, tuple, storesEmpty)

\* compare_image_hashes with its default max_difference
max_difference == 1

\* a comparison that leaves out the threshold itself
compare_image_hashes_strict(image1_hash, image2_hash) ==
    HashDistance(image1_hash, image2_hash) < max_difference

compare_image_hashes(image1_hash, image2_hash) ==
    HashDistance(image1_hash, image2_hash) <= max_difference

----------------------------------------------------------------------------
(* The run: main, then compare_all_images *)

Program == "merge_image_metadata.py"

\* the words a command line is made of
ArgWords == {"-v", "pics", "more"}

RECURSIVE ArgLists(_)
ArgLists(n) ==
    IF n = 0 THEN {<<>>}
    ELSE ArgLists(n - 1)
         \cup {Append(a, w) : a \in {b \in ArgLists(n - 1) : Len(b) = n - 1},
                               w \in ArgWords}

Permutations3(S) ==
    {<<x, y, z>> : x \in S, y \in S, z \in S} \ {s \in [1..3 -> S] : Cardinality(Range(s)) < 3}

\* an entry of the history: note is a read's outcome or the place of an error,
\* dirs the -TAG+=value parameters of a write
Event(op, img, pair, note, dirs) ==
    [op |-> op, img |-> img, pair |-> pair, note |-> note, dirs |-> dirs]

NoTuple == [f \in FieldSet |-> {}]

InitRun ==
    /\ pc = "main"
    /\ level = "INFO"
    /\ usage_printed = FALSE
    /\ exit_status = -1
    /\ folder = "?"
    /\ exif = exif0
    /\ image_dict = <<>>
    /\ i = 0
    /\ j = 0
    /\ keywords = <<>>
    /\ subject = <<>>
    /\ hierarchicalsubject = <<>>
    /\ merged = NoTuple
    /\ events = <<>>

\* every folder content, a few command lines
Init ==
    /\ sys_argv \in {<<Program>>, <<Program, "-v">>, <<Program, "pics">>}
    /\ listing \in {<<"d.gif">> \o p : p \in Permutations3(Images)}
    /\ fingerprint \in {h \in [Images -> Hashes] : \A f \in Images : h[f] \in HashesOf(f)}
    /\ empty_add \in BOOLEAN
    /\ exif0 \in {m \in [Images -> {Restrict(FullMetadata(f), p) :
                                       f \in Images, p \in Presence("a.jpg")}] :
                     \A f \in Images : \E p \in Presence(f) :
                         m[f] = Restrict(FullMetadata(f), p)}
    /\ InitRun

\* every command line, one folder content
InitMain ==
    /\ sys_argv \in {<<Program>> \o a : a \in ArgLists(MaxArgs)}
    /\ listing = <<"d.gif", "b.png", "a.jpg", "c.jpeg">>
    /\ fingerprint = [f \in Images |-> IF f = "c.jpeg" THEN <<0, 1, 1>> ELSE <<0, 0, 0>>]
    /\ empty_add \in BOOLEAN
    /\ exif0 = [f \in Images |-> IF f = "a.jpg" THEN FullMetadata(f) ELSE NoMetadata]
    /\ InitRun

\* the folder main passes on: the last argument that is not -v, else ""
RECURSIVE FolderOf(_, _)
FolderOf(args, acc) ==
    IF args = <<>> THEN acc
    ELSE FolderOf(Tail(args), IF Head(args) = "-v" THEN acc ELSE Head(args))

UsageError(argv) == Len(argv) \notin {2, 3}

\* main(), up to its call of compare_all_images
Main ==
    /\ pc = "main"
    /\ IF UsageError(sys_argv)
       THEN /\ usage_printed' = TRUE
            /\ exit_status' = 1
            /\ pc' = "exit"
            /\ UNCHANGED <<level, folder>>
       ELSE /\ level' = IF "-v" \in Range(Tail(sys_argv)) THEN "DEBUG" ELSE "INFO"
            /\ folder' = FolderOf(Tail(sys_argv), "")
            /\ pc' = "listdir"
            /\ UNCHANGED <<usage_printed, exit_status>>
    /\ UNCHANGED <<sys_argv, listing, fingerprint, empty_add, exif0, exif,
                   image_dict, i, j, keywords, subject, hierarchicalsubject,
                   merged, events>>

\* image_files of compare_all_images
image_files == SelectSeq(listing, IsImageFile)

\* os.listdir(folder_path): no folder is named "", every other one exists
ListDir ==
    /\ pc = "listdir"
    /\ IF folder = ""
       THEN /\ pc' = "exit"
            /\ exit_status' = 1
            /\ events' = Append(events, Event("error", "", <<>>, "listdir", {}))
       ELSE /\ pc' = "hash"
            /\ UNCHANGED <<exit_status, events>>
    /\ UNCHANGED <<sys_argv, level, usage_printed, folder, listing, fingerprint,
                   empty_add, exif0, exif, image_dict, i, j, keywords, subject,
                   hierarchicalsubject, merged>>

\* a hashing phase that starts the loops one file early
HashEarly ==
    /\ pc = "hash"
    /\ IF Len(image_dict) < Len(image_files) - 1
       THEN LET f == image_files[Len(image_dict) + 1]
            IN  /\ image_dict' = Append(image_dict, <<f, fingerprint[f]>>)
                /\ events' = Append(events, Event("hash", f, <<>>, "", {}))
                /\ UNCHANGED <<pc, i, j>>
       ELSE /\ pc' = "compare"
            /\ i' = 1
            /\ j' = 1
            /\ UNCHANGED <<image_dict, events>>
    /\ UNCHANGED <<sys_argv, level, usage_printed, exit_status, folder, listing,
                   fingerprint, empty_add, exif0, exif, keywords, subject,
                   hierarchicalsubject, merged>>

\* one entry of the dict comprehension; after the last, the loops start
Hash ==
    /\ pc = "hash"
    /\ IF Len(image_dict) < Len(image_files)
       THEN LET f == image_files[Len(image_dict) + 1]
            IN  /\ image_dict' = Append(image_dict, <<f, fingerprint[f]>>)
                /\ events' = Append(events, Event("hash", f, <<>>, "", {}))
                /\ UNCHANGED <<pc, i, j>>
       ELSE /\ pc' = "compare"
            /\ i' = 1
            /\ j' = 1
            /\ UNCHANGED <<image_dict, events>>
    /\ UNCHANGED <<sys_argv, level, usage_printed, exit_status, folder, listing,
                   fingerprint, empty_add, exif0, exif, keywords, subject,
                   hierarchicalsubject, merged>>

\* positions of the two nested loops, in the order they are visited
Positions == {<<a, b>> : a \in 1..Len(image_dict), b \in 1..Len(image_dict)}
Before(p, q) == p[1] < q[1] \/ (p[1] = q[1] /\ p[2] < q[2])
Unique(p) == PathLess(image_dict[p[1]][1], image_dict[p[2]][1])

\* the positions from p on that pass "if image1 < image2"
UniqueFrom(p) == {q \in Positions : (q = p \/ Before(p, q)) /\ Unique(q)}
First(ps) == CHOOSE p \in ps : \A q \in ps : q = p \/ Before(p, q)
Successor(p) == IF p[2] < Len(image_dict) THEN <<p[1], p[2] + 1>> ELSE <<p[1] + 1, 1>>

image1 == image_dict[i][1]
image2 == image_dict[j][1]

\* the loops run on to the next unique pair and compare its hashes
Compare ==
    /\ pc = "compare"
    /\ IF UniqueFrom(<<i, j>>) = {}
       THEN /\ pc' = "exit"
            /\ exit_status' = 0
            /\ UNCHANGED <<i, j, events>>
       ELSE LET p == First(UniqueFrom(<<i, j>>))
                a == image_dict[p[1]]
                b == image_dict[p[2]]
                similar == compare_image_hashes(a[2], b[2])
                next == IF similar THEN p ELSE Successor(p)
            IN  /\ events' = Append(events, Event("compare", "", <<a[1], b[1]>>, "", {}))
                /\ pc' = IF similar THEN "read1" ELSE "compare"
                /\ i' = next[1]
                /\ j' = next[2]
                /\ UNCHANGED exit_status
    /\ UNCHANGED <<sys_argv, level, usage_printed, folder, listing, fingerprint,
                   empty_add, exif0, exif, image_dict, keywords, subject,
                   hierarchicalsubject, merged>>

\* merge_metadata, first file: exiftool's output is read and parsed
Read1 ==
    /\ pc = "read1"
    /\ LET lists == ParseOutput(ExiftoolOutput(exif[image1], 1), NoLists)
       IN  /\ keywords' = lists.keywords
           /\ subject' = lists.subject
           /\ hierarchicalsubject' = lists.hierarchicalsubject
    /\ events' = Append(events, Event("read", image1, <<image1, image2>>,
                                      ReadOutcome(ExiftoolOutput(exif[image1], 1)), {}))
    /\ pc' = "read2"
    /\ UNCHANGED <<sys_argv, level, usage_printed, exit_status, folder, listing,
                   fingerprint, empty_add, exif0, exif, image_dict, i, j, merged>>

\* merge_metadata, second file, and the three merged lists it returns
Read2 ==
    /\ pc = "read2"
    /\ LET lists == ParseOutput(ExiftoolOutput(exif[image2], 1),
                                [keywords |-> keywords, subject |-> subject,
                                 hierarchicalsubject |-> hierarchicalsubject])
       IN  merged' = MergedTuple(lists)
    /\ keywords' = <<>>
    /\ subject' = <<>>
    /\ hierarchicalsubject' = <<>>
    /\ events' = Append(events, Event("read", image2, <<image1, image2>>,
                                      ReadOutcome(ExiftoolOutput(exif[image2], 1)), {}))
    /\ pc' = "apply1"
    /\ UNCHANGED <<sys_argv, level, usage_printed, exit_status, folder, listing,
                   fingerprint, empty_add, exif0, exif, image_dict, i, j>>

\* apply_metadata(image1, ...)
Apply1 ==
    /\ pc = "apply1"
    /\ exif' = ApplyMetadata(exif, image1, merged, empty_add)
    /\ events' = Append(events, Event("write", image1, <<image1, image2>>, "",
                                      Parameters(merged)))
    /\ pc' = "apply2"
    /\ UNCHANGED <<sys_argv, level, usage_printed, exit_status, folder, listing,
                   fingerprint, empty_add, exif0, image_dict, i, j, keywords,
                   subject, hierarchicalsubject, merged>>

\* apply_metadata(image2, ...), and on to the next position of the loops
Apply2 ==
    /\ pc = "apply2"
    /\ exif' = ApplyMetadata(exif, image2, merged, empty_add)
    /\ events' = Append(events, Event("write", image2, <<image1, image2>>, "",
                                      Parameters(merged)))
    /\ merged' = NoTuple
    /\ pc' = "compare"
    /\ i' = Successor(<<i, j>>)[1]
    /\ j' = Successor(<<i, j>>)[2]
    /\ UNCHANGED <<sys_argv, level, usage_printed, exit_status, folder, listing,
                   fingerprint, empty_add, exif0, image_dict, keywords, subject,
                   hierarchicalsubject>>

\* a failure of exiftool that is caught: the pair is left and the loops go on
ToolFailsSkips ==
    /\ pc \in {"read1", "read2", "apply1", "apply2"}
    /\ events' = Append(events,
                        Event("error", IF pc \in {"read1", "apply1"} THEN image1 ELSE image2,
                              <<image1, image2>>, pc, {}))
    /\ pc' = "compare"
    /\ i' = Successor(<<i, j>>)[1]
    /\ j' = Successor(<<i, j>>)[2]
    /\ keywords' = <<>>
    /\ subject' = <<>>
    /\ hierarchicalsubject' = <<>>
    /\ merged' = NoTuple
    /\ UNCHANGED <<sys_argv, level, usage_printed, exit_status, folder, listing,
                   fingerprint, empty_add, exif0, exif, image_dict>>

\* Image.open or the hash algorithm raises on a file that is no decodable
\* image: nothing catches it and the process ends with a traceback
DecodeFails ==
    /\ pc = "hash"
    /\ Len(image_dict) < Len(image_files)
    /\ events' = Append(events, Event("error", image_files[Len(image_dict) + 1],
                                      <<>>, "hash", {}))
    /\ pc' = "exit"
    /\ exit_status' = 1
    /\ UNCHANGED <<sys_argv, level, usage_printed, folder, listing, fingerprint,
                   empty_add, exif0, exif, image_dict, i, j, keywords, subject,
                   hierarchicalsubject, merged>>

\* exiftool exits non-zero or is missing: check_output and run(check=True)
\* raise, nothing catches it and the process ends with a traceback
ToolFails ==
    /\ pc \in {"read1", "read2", "apply1", "apply2"}
    /\ events' = Append(events,
                        Event("error", IF pc \in {"read1", "apply1"} THEN image1 ELSE image2,
                              <<image1, image2>>, pc, {}))
    /\ pc' = "exit"
    /\ exit_status' = 1
    /\ UNCHANGED <<sys_argv, level, usage_printed, folder, listing, fingerprint,
                   empty_add, exif0, exif, image_dict, i, j, keywords, subject,
                   hierarchicalsubject, merged>>

Next ==
    \/ Main
    \/ ListDir
    \/ Hash
    \/ DecodeFails
    \/ Compare
    \/ Read1
    \/ Read2
    \/ Apply1
    \/ Apply2
    \/ ToolFails

Spec == Init /\ [][Next]_vars

SpecMain == InitMain /\ [][Next]_vars

----------------------------------------------------------------------------
(* What the history tells *)

\* compare_all_images returned
Done == pc = "exit" /\ exit_status = 0

EventIdx == 1..Len(events)

\* the calls of merge_metadata on the pair p: its first read
Starts(p) ==
    {k \in EventIdx : events[k].op = "read" /\ events[k].pair = p /\ events[k].img = p[1]}

\* the calls of apply_metadata on img for the pair p
Writes(p, img) ==
    {k \in EventIdx : events[k].op = "write" /\ events[k].pair = p /\ events[k].img = img}

Distance(a, b) == HashDistance(fingerprint[a], fingerprint[b])

----------------------------------------------------------------------------
(* C3 *)

\* C3: the pairs merged are exactly the unordered pairs of two distinct image
\* paths at fingerprint distance <= max_difference: a merged pair has two
\* distinct images within the threshold, is merged once and never in the
\* other orientation, and when the run has finished every pair within the
\* threshold has been merged once and written to both of its images once.
C3_MergesExactlyTheMatchingPairs ==
    /\ \A k \in EventIdx :
          events[k].op \in {"read", "write"} =>
             LET p == events[k].pair
             IN  /\ p[1] # p[2]
                 /\ {p[1], p[2]} \subseteq Range(image_files)
                 /\ Distance(p[1], p[2]) <= max_difference
                 /\ Cardinality(Starts(p)) = 1
                 /\ Starts(<<p[2], p[1]>>) = {}
    /\ Done =>
          \A a, b \in Range(image_files) :
             (PathLess(a, b) /\ Distance(a, b) <= max_difference) =>
                /\ Cardinality(Starts(<<a, b>>)) = 1
                /\ Cardinality(Writes(<<a, b>>, a)) = 1
                /\ Cardinality(Writes(<<a, b>>, b)) = 1

\* a finished run that merged a pair at exactly the threshold and left alone
\* a pair one bit further apart
C3_Witness ==
    /\ Done
    /\ \E a, b \in Range(image_files) :
          /\ Distance(a, b) = max_difference
          /\ Starts(<<a, b>>) # {}
    /\ \E a, b \in Range(image_files) :
          /\ PathLess(a, b)
          /\ Distance(a, b) = max_difference + 1
          /\ Starts(<<a, b>>) = {}

----------------------------------------------------------------------------
(* C10 *)

IsRW(e) == e.op \in {"read", "write"}

\* every file is hashed before the first comparison
HashesFirst ==
    \A k \in EventIdx :
       /\ events[k].op = "hash" => \A l \in 1..(k - 1) : events[l].op = "hash"
       /\ events[k].op = "compare" =>
             {events[l].img : l \in {m \in 1..(k - 1) : events[m].op = "hash"}}
                = Range(image_files)

\* read A, read B, write A, write B of one pair follow each other directly
PairBlock ==
    \A k \in EventIdx :
       LET e == events[k]
           before == events[k - 1]
       IN  /\ (e.op = "read" /\ e.img = e.pair[2]) =>
                 (k > 1 /\ before.op = "read" /\ before.pair = e.pair
                        /\ before.img = e.pair[1])
           /\ (e.op = "write" /\ e.img = e.pair[1]) =>
                 (k > 1 /\ before.op = "read" /\ before.pair = e.pair
                        /\ before.img = e.pair[2])
           /\ (e.op = "write" /\ e.img = e.pair[2]) =>
                 (k > 1 /\ before.op = "write" /\ before.pair = e.pair
                        /\ before.img = e.pair[1])

\* C10 as stated: three phases, all hashes, then all comparisons, then per
\* matched pair read A, read B, write A, write B; no comparison follows a
\* read or a write.
C10_ThreePhases ==
    /\ HashesFirst
    /\ \A k, l \in EventIdx : (k < l /\ IsRW(events[k])) => events[l].op # "compare"
    /\ PairBlock

\* C10 as amended: all files are hashed before the first comparison; then the
\* loops compare one pair at a time and a matched pair is read and written
\* (read A, read B, write A, write B) right after its own comparison, before
\* the next pair is compared.
C10_HashThenPairByPair ==
    /\ HashesFirst
    /\ \A k \in EventIdx :
          (events[k].op = "read" /\ events[k].img = events[k].pair[1]) =>
             (k > 1 /\ events[k - 1].op = "compare"
                    /\ events[k - 1].pair = events[k].pair)
    /\ PairBlock

\* a finished run that compared a pair after it had written another
C10_Witness ==
    /\ Done
    /\ \E k, l \in EventIdx :
          /\ k < l
          /\ events[k].op = "write"
          /\ events[l].op = "compare"

----------------------------------------------------------------------------
(* C7 *)

\* the read at k did not yield all three fields: the tool failed, or the try
\* block ended in IndexError
ReadFailedAt(k) ==
    \/ events[k].op = "read" /\ events[k].note = "IndexError"
    \/ events[k].op = "error" /\ events[k].note \in {"read1", "read2"}

\* the run went on after the pair whose event is at k
PastPair(k) == Done \/ \E l \in EventIdx : l > k /\ events[l].op = "compare"

\* C7 as stated: when the read of either image of a pair fails (tool failure
\* or unparsable output) the pair is skipped, apply_metadata is called on
\* neither image, and the run does not abort.
C7_FailedReadSkipsPair ==
    \A k \in EventIdx :
       ReadFailedAt(k) =>
          /\ Writes(events[k].pair, events[k].pair[1]) = {}
          /\ Writes(events[k].pair, events[k].pair[2]) = {}
          /\ ~(pc = "exit" /\ exit_status = 1)

\* C7 as amended: a failure of the external tool is not caught: it is the last
\* thing the run does, the process ends with status 1, and when it happened
\* at a read, neither image of that pair is written.  Output that cannot be
\* parsed (IndexError) does not skip the pair: the run goes on and
\* apply_metadata is called once on each of the two images.
C7_ToolFailureAbortsParseFailureMerges ==
    /\ \A k \in EventIdx :
          events[k].op = "error" =>
             /\ k = Len(events)
             /\ pc = "exit"
             /\ exit_status = 1
             /\ events[k].note \in {"read1", "read2"} =>
                   /\ Writes(events[k].pair, events[k].pair[1]) = {}
                   /\ Writes(events[k].pair, events[k].pair[2]) = {}
    /\ \A k \in EventIdx :
          (events[k].op = "read" /\ events[k].note = "IndexError" /\ PastPair(k)) =>
             /\ Cardinality(Writes(events[k].pair, events[k].pair[1])) = 1
             /\ Cardinality(Writes(events[k].pair, events[k].pair[2])) = 1

\* a run that wrote both images of a pair one of whose reads ended in
\* IndexError, and then ended on a tool failure at the read of a later pair
C7_Witness ==
    /\ pc = "exit"
    /\ exit_status = 1
    /\ events # <<>>
    /\ events[Len(events)].op = "error"
    /\ events[Len(events)].note \in {"read1", "read2"}
    /\ \E k \in EventIdx :
          /\ events[k].op = "read"
          /\ events[k].note = "IndexError"
          /\ Writes(events[k].pair, events[k].pair[1]) # {}
          /\ Writes(events[k].pair, events[k].pair[2]) # {}

----------------------------------------------------------------------------
(* C9 *)

\* the pair of two images as the loops form it: smaller path first
PairOf(a, b) == IF PathLess(a, b) THEN <<a, b>> ELSE <<b, a>>

\* the stored metadata after the pairs were merged in this order
RECURSIVE RunPairs(_, _, _)
RunPairs(m, pairs, storesEmpty) ==
    IF pairs = <<>> THEN m
    ELSE RunPairs(MergePair(m, pairs[1][1], pairs[1][2], storesEmpty),
                  Tail(pairs), storesEmpty)

IsStart(e) == e.op = "read" /\ e.img = e.pair[1]

\* the pairs merged so far, in the order they were merged
MergedPairs ==
    LET starts == SelectSeq(events, IsStart)
    IN  [k \in 1..Len(starts) |-> starts[k].pair]

\* h is similar to x and to y, which are not similar to each other
Hub(h, x, y) ==
    /\ Cardinality({h, x, y}) = 3
    /\ Distance(h, x) <= max_difference
    /\ Distance(h, y) <= max_difference
    /\ Distance(x, y) > max_difference

\* the result of merging (h, x) first and (h, y) second
HubRun(h, x, y) == RunPairs(exif0, <<PairOf(h, x), PairOf(h, y)>>, empty_add)

HoldsAllFields(img) == \A f \in FieldSet : exif0[img][f] # {}

\* C9 as stated: whenever A is similar to B and to C and B is not similar to
\* C, what A holds at the end differs between the two orders of merging
\* (A, B) and (A, C).
C9_HubDependsOnOrder ==
    \A h, x, y \in Images :
       Hub(h, x, y) => HubRun(h, x, y)[h] # HubRun(h, y, x)[h]

\* C9 as amended: a finished run leaves what merging its pairs one after the
\* other in the order of the run leaves; and when A is similar to B and to C,
\* B is not similar to C and all three hold all three fields, A ends with the
\* union of the three images' values whichever pair is merged first, the image
\* of the second pair too, and the other image of the first pair ends with the
\* union of A's and its own values only.  So A can differ between the two
\* orders only when one of the three images lacks a field.
C9_HubEndsWithUnionInBothOrders ==
    /\ Done => exif = RunPairs(exif0, MergedPairs, empty_add)
    /\ \A h, x, y \in Images :
          (Hub(h, x, y) /\ \A img \in {h, x, y} : HoldsAllFields(img)) =>
             LET r == HubRun(h, x, y)
             IN  /\ r[h] = HubRun(h, y, x)[h]
                 /\ \A f \in FieldSet :
                       /\ r[h][f] = exif0[h][f] \cup exif0[x][f] \cup exif0[y][f]
                       /\ r[y][f] = exif0[h][f] \cup exif0[x][f] \cup exif0[y][f]
                       /\ r[x][f] = exif0[h][f] \cup exif0[x][f]

\* a finished run over such a hub, all fields held: the hub and the image of
\* the second pair hold the same, the image of the first pair holds less
C9_Witness ==
    /\ Done
    /\ \E h, x, y \in Images :
          /\ Hub(h, x, y)
          /\ \A img \in {h, x, y} : HoldsAllFields(img)
          /\ MergedPairs = <<PairOf(h, x), PairOf(h, y)>>
          /\ exif[h] = exif[y]
          /\ exif[x] # exif[h]

----------------------------------------------------------------------------
(* The merge of one pair: C1, C2, C4, C5 and C6 *)

\* C1: every value either image of a pair holds in a field before the pair is
\* merged is held in that field by both images after merge_metadata and the
\* two apply_metadata, and at the end of the run; no value is ever removed.
C1_BothHoldTheUnion ==
    /\ pc = "apply1" =>
          LET after == ApplyMetadata(ApplyMetadata(exif, image1, merged, empty_add),
                                     image2, merged, empty_add)
          IN  \A f \in FieldSet :
                 exif[image1][f] \cup exif[image2][f]
                    \subseteq after[image1][f] \cap after[image2][f]
    /\ Done =>
          \A k \in EventIdx : IsStart(events[k]) =>
             LET p == events[k].pair
             IN  \A f \in FieldSet :
                    exif0[p[1]][f] \cup exif0[p[2]][f]
                       \subseteq exif[p[1]][f] \cap exif[p[2]][f]
    /\ \A img \in Images : \A f \in FieldSet : exif0[img][f] \subseteq exif[img][f]

\* C2: when compare_all_images has finished, any two images of the folder at
\* fingerprint distance <= max_difference hold the same values in each of
\* the three fields.
C2_MatchedImagesHoldTheSame ==
    Done =>
       \A a, b \in Range(image_files) :
          (a # b /\ Distance(a, b) <= max_difference) =>
             \A f \in FieldSet : exif[a][f] = exif[b][f]

\* the image holds Keywords and HierarchicalSubject and no Subject
LacksSubject(img) ==
    /\ exif[img]["Keywords"] # {}
    /\ exif[img]["HierarchicalSubject"] # {}
    /\ exif[img]["Subject"] = {}

\* C4: when the output read for an image lacks the Subject line, the tuple
\* merge_metadata returns has the image's Keywords values under Keywords and
\* its HierarchicalSubject values under HierarchicalSubject, and no value
\* appears under a field that neither image holds it in (the empty string of
\* an unreported field aside).
C4_MissingSubjectIsEmpty ==
    pc = "apply1" =>
       \A img \in {image1, image2} :
          LacksSubject(img) =>
             /\ exif[img]["Keywords"] \subseteq merged["Keywords"]
             /\ exif[img]["HierarchicalSubject"] \subseteq merged["HierarchicalSubject"]
             /\ \A f \in FieldSet :
                   merged[f] \ {<<>>} \subseteq exif[image1][f] \cup exif[image2][f]

\* the set got by splitting on ", " the value exiftool reports for the field
Reported(img, f) ==
    IF exif[img][f] = {} THEN {}
    ELSE Range(Split(Join(Listed(exif[img][f], 1), CommaSp), CommaSp))

\* C5: each list merge_metadata returns is, as a set, the union of the two
\* sets the images report for that field, empty when neither reports it, and
\* apply_metadata passes no parameter with an empty value.
C5_MergedIsTheUnionOfTheReported ==
    /\ pc = "apply1" =>
          \A f \in FieldSet : merged[f] = Reported(image1, f) \cup Reported(image2, f)
    /\ \A k \in EventIdx :
          events[k].op = "write" => \A d \in events[k].dirs : d[2] # <<>>

\* C6: merging a pair a second time, or running a second time over the
\* folder, leaves every image's stored fields as the first time left them.
C6_SecondMergeAddsNothing ==
    /\ pc = "read1" =>
          LET once == MergePair(exif, image1, image2, empty_add)
          IN  MergePair(once, image1, image2, empty_add) = once
    /\ Done => RunPairs(exif, MergedPairs, empty_add) = exif

----------------------------------------------------------------------------
(* C8 *)

\* the arguments are one FOLDER, with or without a -v before or after it
OneFolder(args) ==
    \E F \in ArgWords \ {"-v"} : args \in {<<F>>, <<"-v", F>>, <<F, "-v">>}

\* C8: for every other argument list main prints the usage text and exits
\* with status 1 without scanning a folder, and compare_all_images is only
\* called with a FOLDER given on the command line.
C8_UsageUnlessOneFolder ==
    pc # "main" =>
       /\ ~OneFolder(Tail(sys_argv)) =>
             (usage_printed /\ exit_status = 1 /\ folder = "?")
       /\ folder # "?" => folder \in Range(Tail(sys_argv)) \ {"-v"}

====
